---- MODULE Spec2Model ----
(***************************************************************************)
(* Knowledge distillation trainer of                                       *)
(* knowledge_distillation_implementation_end_to_end.ipynb:                 *)
(* KnowledgeDistillationTrainingArguments, KnowledgeDistillationTrainer    *)
(* and the training run distilbert_trainer.train() that drives them.       *)
(*                                                                         *)
(* Numbers.  The tensors of the notebook hold reals.  They are modelled    *)
(* exactly, as elements of the rational vector space spanned by 1 and the  *)
(* logarithms of the primes: a value is  c + SUM_p l[p] * ln(p)  with c    *)
(* and l[p] rational.  The logarithms of distinct primes are linearly      *)
(* independent over the rationals, so two values are equal as reals iff    *)
(* their normal forms are equal.  Logits are multiples of ln(4), which     *)
(* makes exp, softmax, log_softmax and the Kullback-Leibler divergence     *)
(* exact for the temperatures 1 and 2.  A division by zero gives +-inf or  *)
(* NaN in IEEE arithmetic; every later operation of compute_loss maps a    *)
(* row of such entries to NaN, and the model holds them as NaN.  Rounding  *)
(* of floating point is not modelled.                                      *)
(***************************************************************************)
EXTENDS Integers, Sequences, FiniteSets, TLC

\* ------------------------------------------------------------------ bounds
MaxLogit == 1
MaxBatch == 2
MaxSteps == 1

\* Label-space sizes a checkpoint may have.
LabelSizes == {2, 3}

\* ------------------------------------------------------------- rationals
Abs(n) == IF n < 0 THEN -n ELSE n

RECURSIVE GCD(_, _)
GCD(a, b) == IF b = 0 THEN a ELSE GCD(b, a % b)

\* n/d in lowest terms with a positive denominator (d # 0).
Rat(n, d) ==
  LET g == GCD(Abs(n), Abs(d))
      s == IF d < 0 THEN -1 ELSE 1
  IN  <<(s * n) \div g, (s * d) \div g>>

RZero == <<0, 1>>
ROne == <<1, 1>>
RInt(n) == <<n, 1>>
RAdd(a, b) == Rat(a[1] * b[2] + b[1] * a[2], a[2] * b[2])
RNeg(a) == <<-a[1], a[2]>>
RSub(a, b) == RAdd(a, RNeg(b))
RMul(a, b) == Rat(a[1] * b[1], a[2] * b[2])
RInv(a) == Rat(a[2], a[1])
RDiv(a, b) == RMul(a, RInv(b))
RLeq(a, b) == a[1] * b[2] <= b[1] * a[2]
RLess(a, b) == a[1] * b[2] < b[1] * a[2]

RECURSIVE IPow(_, _)
IPow(b, e) == IF e = 0 THEN 1 ELSE b * IPow(b, e - 1)

\* b^e for an integer exponent e of either sign.
RPow(b, e) == IF e >= 0 THEN RInt(IPow(b, e)) ELSE Rat(1, IPow(b, -e))

\* ---------------------------------------------------------------- values
\* l is the set of the pairs <<p, l[p]>> with l[p] # 0.
NaN == [nan |-> TRUE, c |-> RZero, l |-> {}]
VRat(r) == [nan |-> FALSE, c |-> r, l |-> {}]
VZero == VRat(RZero)

LogPrimes(v) == {e[1] : e \in v.l}
Coef(v, p) ==
  IF p \in LogPrimes(v) THEN (CHOOSE e \in v.l : e[1] = p)[2] ELSE RZero
Prune(l) == {e \in l : e[2] # RZero}

VAdd(a, b) ==
  IF a.nan \/ b.nan THEN NaN
  ELSE [nan |-> FALSE, c |-> RAdd(a.c, b.c),
        l |-> Prune({<<p, RAdd(Coef(a, p), Coef(b, p))>> :
                       p \in LogPrimes(a) \cup LogPrimes(b)})]

\* r * a for a rational r; a NaN stays a NaN, also for r = 0.
VScale(r, a) ==
  IF a.nan THEN NaN
  ELSE [nan |-> FALSE, c |-> RMul(r, a.c),
        l |-> Prune({<<e[1], RMul(r, e[2])>> : e \in a.l})]

VNeg(a) == VScale(RInt(-1), a)
VSub(a, b) == VAdd(a, VNeg(b))
IsRational(a) == ~a.nan /\ a.l = {}

\* a * b, one factor being rational (all the products of compute_loss are).
VMul(a, b) ==
  CASE a.nan \/ b.nan -> NaN
    [] IsRational(a) -> VScale(a.c, b)
    [] IsRational(b) -> VScale(b.c, a)

\* a / t for a scalar t; x / 0 is not finite.
VDivScalar(a, t) == IF t = RZero THEN NaN ELSE VScale(RInv(t), a)

IsPrime(p) == p > 1 /\ \A d \in 2..(p - 1) : d * d > p \/ p % d # 0
PrimeFactors(n) == {p \in 2..n : n % p = 0 /\ IsPrime(p)}

RECURSIVE Multiplicity(_, _)
Multiplicity(n, p) == IF n % p = 0 THEN 1 + Multiplicity(n \div p, p) ELSE 0

\* ln(n) for an integer n >= 1.
LnInt(n) ==
  [nan |-> FALSE, c |-> RZero,
   l |-> {<<p, RInt(Multiplicity(n, p))>> : p \in PrimeFactors(n)}]

\* ln(r) for a rational r > 0.
LnRat(r) == VSub(LnInt(r[1]), LnInt(r[2]))

\* torch.log of a tensor entry that is a positive rational.
VLog(a) ==
  CASE a.nan -> NaN
    [] IsRational(a) /\ a.c[1] > 0 -> LnRat(a.c)

RECURSIVE PowProduct(_)
PowProduct(l) ==
  IF l = {} THEN ROne
  ELSE LET e == CHOOSE x \in l : TRUE
       IN  RMul(RPow(e[1], e[2][1]), PowProduct(l \ {e}))

\* exp(a) for a = SUM_p e[p] * ln(p) with integer e[p]: PROD_p p^e[p].
VExp(a) ==
  CASE a.nan -> NaN
    [] a.c = RZero /\ \A e \in a.l : e[2][2] = 1 -> VRat(PowProduct(a.l))

\* ----------------------------------------------------------------- rows
RECURSIVE MapSeq(_, _)
MapSeq(Op(_), s) ==
  IF s = <<>> THEN <<>> ELSE <<Op(Head(s))>> \o MapSeq(Op, Tail(s))

RECURSIVE Map2(_, _, _)
Map2(Op(_, _), s, t) ==
  IF s = <<>> THEN <<>>
  ELSE <<Op(Head(s), Head(t))>> \o Map2(Op, Tail(s), Tail(t))

RECURSIVE VSum(_)
VSum(row) == IF row = <<>> THEN VZero ELSE VAdd(Head(row), VSum(Tail(row)))

RowDiv(row, t) == MapSeq(LAMBDA v : VDivScalar(v, t), row)
\* x / t for a tensor x (a sequence of rows) and a scalar t.
TensorDiv(x, t) == MapSeq(LAMBDA row : RowDiv(row, t), x)

\* F.softmax(x, dim=-1) on one row.
SoftmaxRow(row) ==
  LET e == MapSeq(VExp, row)
      z == VSum(e)
  IN  MapSeq(LAMBDA v : IF z.nan THEN NaN ELSE VRat(RDiv(v.c, z.c)), e)

\* F.log_softmax(x, dim=-1) on one row: x - log(sum(exp(x))).
LogSoftmaxRow(row) ==
  LET lse == VLog(VSum(MapSeq(VExp, row)))
  IN  MapSeq(LAMBDA v : VSub(v, lse), row)

softmax(x) == MapSeq(SoftmaxRow, x)
log_softmax(x) == MapSeq(LogSoftmaxRow, x)

\* ------------------------------------------------------- external models
\* A sequence-classification model: one logit per label, held in units of
\* ln(4); nan marks parameters an update with a NaN gradient has destroyed.
Model(n, w) == [num_labels |-> n, w |-> w, nan |-> FALSE]

LogitValue(k) == VScale(RInt(2 * k), LnInt(2))

\* The logits the model gives for a batch: one row per example.
ModelLogits(m, batch) ==
  LET row == MapSeq(LAMBDA k : IF m.nan THEN NaN ELSE LogitValue(k), m.w)
  IN  MapSeq(LAMBDA y : row, batch.labels)

\* The model's own supervised loss: cross entropy of its logits against the
\* labels of the batch (labels are class indices from 0), mean over the batch.
CrossEntropy(logits, labels) ==
  VScale(Rat(1, Len(labels)),
         VSum(Map2(LAMBDA row, y : VNeg(row[y + 1]),
                   log_softmax(logits), labels)))

\* model(**inputs): the outputs object with .loss and .logits.
Forward(m, batch) ==
  LET lg == ModelLogits(m, batch)
  IN  [loss |-> CrossEntropy(lg, batch.labels), logits |-> lg]

\* ------------------------------------------- KnowledgeDistillationTrainer
\* The pointwise term of the Kullback-Leibler loss, summed over one row:
\* target * (log(target) - input).
KLRow(input, target) ==
  VSum(Map2(LAMBDA x, y : VMul(y, VSub(VLog(y), x)), input, target))

\* nn.KLDivLoss(reduction="batchmean")(input, target): the sum over all
\* entries, divided by the batch size.
KLDivLoss(input, target) ==
  VScale(Rat(1, Len(input)), VSum(Map2(KLRow, input, target)))

\* loss_kd with the temperature correction T instead of T^2.
loss_kd_linear_T(a, logits_student, logits_teacher) ==
  VScale(a.temperature,
         KLDivLoss(log_softmax(TensorDiv(logits_student, a.temperature)),
                   softmax(TensorDiv(logits_teacher, a.temperature))))

\* loss_kd handing KLDivLoss the student's probabilities, not their logs.
loss_kd_probabilities(a, logits_student, logits_teacher) ==
  VScale(RMul(a.temperature, a.temperature),
         KLDivLoss(softmax(TensorDiv(logits_student, a.temperature)),
                   softmax(TensorDiv(logits_teacher, a.temperature))))

\* loss_kd of compute_loss.
loss_kd(a, logits_student, logits_teacher) ==
  VScale(RMul(a.temperature, a.temperature),
         KLDivLoss(log_softmax(TensorDiv(logits_student, a.temperature)),
                   softmax(TensorDiv(logits_teacher, a.temperature))))

\* loss with the two weights exchanged.
loss_weights_exchanged(a, loss_ce, kd) ==
  VAdd(VScale(RSub(ROne, a.alpha), loss_ce), VScale(a.alpha, kd))

\* loss of compute_loss: the weighted student loss.
loss(a, loss_ce, kd) ==
  VAdd(VScale(a.alpha, loss_ce), VScale(RSub(ROne, a.alpha), kd))

SameShape(x, y) ==
  /\ Len(x) = Len(y)
  /\ \A b \in DOMAIN x : Len(x[b]) = Len(y[b])

\* What compute_loss hands back.
NoResult == [kind |-> "none", loss |-> VZero, outputs |-> <<>>]
Raised(e) == [kind |-> e, loss |-> VZero, outputs |-> <<>>]
Returned(l, outputs, ret_outputs) ==
  IF ret_outputs THEN [kind |-> "pair", loss |-> l, outputs |-> <<outputs>>]
  ELSE [kind |-> "loss", loss |-> l, outputs |-> <<>>]

\* ------------------------------------------------------------------ inputs
AlphaDefault == Rat(1, 2)
TemperatureDefault == RInt(2)
AlphaGiven == {RInt(0), RInt(1), RInt(2)}
TemperatureGiven == {RInt(0), RInt(1)}

\* The teacher is a trained checkpoint: any logits over TeacherLogits.
TeacherLogits == {0, 1}
Weights(n) == [1..n -> TeacherLogits]
Checkpoints == UNION {{Model(n, w) : w \in Weights(n)} : n \in LabelSizes}
\* The student starts from a checkpoint with a fresh classification head.
StudentInits == {Model(n, [c \in 1..n |-> 0]) : n \in LabelSizes}

\* Batches of 1..MaxBatch examples labelled with the n labels of the dataset.
\* compute_loss treats the rows of a batch alike, so a batch is listed once,
\* with its labels in nondecreasing order.
Batches(n) ==
  UNION {{[labels |-> ls] :
            ls \in {s \in [1..k -> 0..(n - 1)] :
                      \A i \in 1..(k - 1) : s[i] <= s[i + 1]}} :
         k \in 1..MaxBatch}

NoBatch == [labels |-> <<>>]

VARIABLES
  pc,               \* where the notebook's run is
  given,            \* keyword arguments passed to the training arguments
  args,             \* the KnowledgeDistillationTrainingArguments
  teacher_model,    \* KnowledgeDistillationTrainer.teacher_model
  student,          \* the trainer's model (student_init())
  teacher,          \* the teacher model object loaded by the notebook
  step,             \* optimizer steps taken
  inputs,           \* the batch of the running compute_loss
  return_outputs,   \* its return_outputs argument
  outputs_student,  \* <<>> or <<outputs>>
  outputs_teacher,  \* <<>> or <<outputs>>
  result,           \* what compute_loss returned or raised
  forward_passes    \* the models called by the running compute_loss, in
                    \* the order of the calls, each with its batch

vars == <<pc, given, args, teacher_model, student, teacher, step, inputs,
          return_outputs, outputs_student, outputs_teacher, result,
          forward_passes>>

\* One call model(**batch) of the student ("model") or of the teacher
\* ("teacher_model").
Pass(callee, batch) == [callee |-> callee, inputs |-> batch]

Init ==
  /\ pc = "start"
  /\ given = {}
  /\ args = [alpha |-> AlphaDefault, temperature |-> TemperatureDefault]
  /\ teacher_model = "None"
  /\ student \in StudentInits
  /\ teacher \in Checkpoints
  /\ step = 0
  /\ inputs = NoBatch
  /\ return_outputs = FALSE
  /\ outputs_student = <<>>
  /\ outputs_teacher = <<>>
  /\ result = NoResult
  /\ forward_passes = <<>>

\* KnowledgeDistillationTrainingArguments(..., alpha=a, temperature=t) with
\* each keyword given or left to its default.
NewTrainingArguments ==
  /\ pc = "start"
  /\ \E g \in SUBSET {"alpha", "temperature"} :
       \E a \in AlphaGiven, t \in TemperatureGiven :
         /\ given' = g
         /\ args' = [alpha |-> IF "alpha" \in g THEN a ELSE AlphaDefault,
                     temperature |-> IF "temperature" \in g THEN t
                                     ELSE TemperatureDefault]
  /\ pc' = "args"
  /\ UNCHANGED <<teacher_model, student, teacher, step, inputs,
                 return_outputs, outputs_student, outputs_teacher, result,
                 forward_passes>>

\* KnowledgeDistillationTrainer(..., teacher_model=tm, args=args).
NewTrainer ==
  /\ pc = "args"
  /\ \E tm \in {"None", "teacher"} : teacher_model' = tm
  /\ pc' = "trainer"
  /\ UNCHANGED <<given, args, student, teacher, step, inputs,
                 return_outputs, outputs_student, outputs_teacher, result,
                 forward_passes>>

\* distilbert_trainer.train()
Train ==
  /\ pc = "trainer"
  /\ pc' = "loop"
  /\ UNCHANGED <<given, args, teacher_model, student, teacher, step, inputs,
                 return_outputs, outputs_student, outputs_teacher, result,
                 forward_passes>>

\* The loop pulls a batch and calls compute_loss(model, inputs).
TrainingStep ==
  /\ pc = "loop"
  /\ step < MaxSteps
  /\ \E batch \in Batches(student.num_labels) : inputs' = batch
  /\ return_outputs' = FALSE
  /\ forward_passes' = <<>>
  /\ pc' = "student_forward"
  /\ UNCHANGED <<given, args, teacher_model, student, teacher, step,
                 outputs_student, outputs_teacher, result>>

\* Evaluation at the end of the epoch (MaxSteps batches) calls
\* compute_loss(model, inputs, return_outputs=True).
EvaluationStep ==
  /\ pc = "loop"
  /\ step = MaxSteps
  /\ \E batch \in Batches(student.num_labels) : inputs' = batch
  /\ return_outputs' = TRUE
  /\ forward_passes' = <<>>
  /\ pc' = "student_forward"
  /\ UNCHANGED <<given, args, teacher_model, student, teacher, step,
                 outputs_student, outputs_teacher, result>>

\* A compute_loss that calls the student once for its loss and once more for
\* its logits.
StudentForward_twice ==
  /\ pc = "student_forward"
  /\ outputs_student' = <<Forward(student, inputs)>>
  /\ forward_passes' = forward_passes \o <<Pass("model", inputs),
                                            Pass("model", inputs)>>
  /\ pc' = "teacher_forward"
  /\ UNCHANGED <<given, args, teacher_model, student, teacher, step, inputs,
                 return_outputs, outputs_teacher, result>>

\* outputs_student = model(**inputs)
StudentForward ==
  /\ pc = "student_forward"
  /\ outputs_student' = <<Forward(student, inputs)>>
  /\ forward_passes' = Append(forward_passes, Pass("model", inputs))
  /\ pc' = "teacher_forward"
  /\ UNCHANGED <<given, args, teacher_model, student, teacher, step, inputs,
                 return_outputs, outputs_teacher, result>>

\* A compute_loss that leaves the teacher out when the trainer holds none and
\* returns the student's own loss.
TeacherForward_unless_None ==
  /\ pc = "teacher_forward"
  /\ IF teacher_model = "None"
       THEN /\ result' = Returned(outputs_student[1].loss, outputs_student[1],
                                  return_outputs)
            /\ pc' = "returned"
            /\ UNCHANGED <<outputs_teacher, forward_passes>>
     ELSE IF \E b \in DOMAIN inputs.labels :
               inputs.labels[b] >= teacher.num_labels
       THEN /\ result' = Raised("IndexError")
            /\ pc' = "failed"
            /\ forward_passes' =
                 Append(forward_passes, Pass("teacher_model", inputs))
            /\ UNCHANGED outputs_teacher
     ELSE /\ outputs_teacher' = <<Forward(teacher, inputs)>>
          /\ forward_passes' =
               Append(forward_passes, Pass("teacher_model", inputs))
          /\ pc' = "distill"
          /\ UNCHANGED result
  /\ UNCHANGED <<given, args, teacher_model, student, teacher, step, inputs,
                 return_outputs, outputs_student>>

\* outputs_teacher = self.teacher_model(**inputs): None is not callable, and
\* a label outside the teacher's label space fails in the teacher's own loss.
TeacherForward ==
  /\ pc = "teacher_forward"
  /\ IF teacher_model = "None"
       THEN /\ result' = Raised("TypeError")
            /\ pc' = "failed"
            /\ UNCHANGED <<outputs_teacher, forward_passes>>
     ELSE IF \E b \in DOMAIN inputs.labels :
               inputs.labels[b] >= teacher.num_labels
       THEN /\ result' = Raised("IndexError")
            /\ pc' = "failed"
            /\ forward_passes' =
                 Append(forward_passes, Pass("teacher_model", inputs))
            /\ UNCHANGED outputs_teacher
     ELSE /\ outputs_teacher' = <<Forward(teacher, inputs)>>
          /\ forward_passes' =
               Append(forward_passes, Pass("teacher_model", inputs))
          /\ pc' = "distill"
          /\ UNCHANGED result
  /\ UNCHANGED <<given, args, teacher_model, student, teacher, step, inputs,
                 return_outputs, outputs_student>>

\* compute_loss as one function of the models, the batch and the arguments:
\* the loss it returns when both forward passes and KLDivLoss succeed.
compute_loss(m, tm, batch, a) ==
  LET out_s == Forward(m, batch)
      out_t == Forward(tm, batch)
  IN  loss(a, out_s.loss, loss_kd(a, out_s.logits, out_t.logits))

\* DistillationLoss lowering self.args.temperature as it goes.
DistillationLoss_annealing ==
  /\ pc = "distill"
  /\ SameShape(outputs_student[1].logits, outputs_teacher[1].logits)
  /\ result' = Returned(
         loss(args, outputs_student[1].loss,
              loss_kd(args, outputs_student[1].logits,
                      outputs_teacher[1].logits)),
         outputs_student[1], return_outputs)
  /\ args' = [args EXCEPT !.temperature = RAdd(@, ROne)]
  /\ pc' = "returned"
  /\ UNCHANGED <<given, teacher_model, student, teacher, step, inputs,
                 return_outputs, outputs_student, outputs_teacher,
                 forward_passes>>

\* DistillationLoss returning the teacher's outputs with the loss.
DistillationLoss_teacher_outputs ==
  /\ pc = "distill"
  /\ SameShape(outputs_student[1].logits, outputs_teacher[1].logits)
  /\ result' = Returned(
         loss(args, outputs_student[1].loss,
              loss_kd(args, outputs_student[1].logits,
                      outputs_teacher[1].logits)),
         outputs_teacher[1], return_outputs)
  /\ pc' = "returned"
  /\ UNCHANGED <<given, args, teacher_model, student, teacher, step, inputs,
                 return_outputs, outputs_student, outputs_teacher,
                 forward_passes>>

\* The rest of compute_loss: loss_kd, loss and the return.  KLDivLoss raises
\* when its two tensors do not have the same shape.
DistillationLoss ==
  /\ pc = "distill"
  /\ LET loss_ce == outputs_student[1].loss
         logits_student == outputs_student[1].logits
         logits_teacher == outputs_teacher[1].logits
     IN  IF ~SameShape(logits_student, logits_teacher)
           THEN /\ result' = Raised("RuntimeError")
                /\ pc' = "failed"
         ELSE /\ result' = Returned(
                    loss(args, loss_ce,
                         loss_kd(args, logits_student, logits_teacher)),
                    outputs_student[1], return_outputs)
              /\ pc' = "returned"
  /\ UNCHANGED <<given, args, teacher_model, student, teacher, step, inputs,
                 return_outputs, outputs_student, outputs_teacher,
                 forward_passes>>

\* The student's parameters after one optimizer step on the loss: some
\* logit moves by one unit within 0..MaxLogit; a NaN loss leaves NaN
\* parameters.
Updated(m, l) ==
  IF l.nan THEN {[m EXCEPT !.nan = TRUE]}
  ELSE {[m EXCEPT !.w[c] = @ + d] :
          <<c, d>> \in {x \in (1..m.num_labels) \X {-1, 1} :
                          m.w[x[1]] + x[2] \in 0..MaxLogit}}

\* OptimizerStep with the teacher's parameters handed to the optimizer too.
OptimizerStep_teacher_too ==
  /\ pc = "returned"
  /\ ~return_outputs
  /\ student' \in Updated(student, result.loss)
  /\ teacher' \in Updated(teacher, result.loss)
  /\ step' = step + 1
  /\ inputs' = NoBatch
  /\ outputs_student' = <<>>
  /\ outputs_teacher' = <<>>
  /\ result' = NoResult
  /\ forward_passes' = <<>>
  /\ pc' = "loop"
  /\ UNCHANGED <<given, args, teacher_model, return_outputs>>

\* loss.backward() and optimizer.step() of the training loop: the optimizer
\* holds the parameters of the trainer's model, the student.
OptimizerStep ==
  /\ pc = "returned"
  /\ ~return_outputs
  /\ student' \in Updated(student, result.loss)
  /\ step' = step + 1
  /\ inputs' = NoBatch
  /\ outputs_student' = <<>>
  /\ outputs_teacher' = <<>>
  /\ result' = NoResult
  /\ forward_passes' = <<>>
  /\ pc' = "loop"
  /\ UNCHANGED <<given, args, teacher_model, teacher, return_outputs>>

\* The evaluation loss is reported and the run ends.
EvaluationDone ==
  /\ pc = "returned"
  /\ return_outputs
  /\ inputs' = NoBatch
  /\ outputs_student' = <<>>
  /\ outputs_teacher' = <<>>
  /\ result' = NoResult
  /\ forward_passes' = <<>>
  /\ pc' = "done"
  /\ UNCHANGED <<given, args, teacher_model, student, teacher, step,
                 return_outputs>>

Next ==
  \/ NewTrainingArguments
  \/ NewTrainer
  \/ Train
  \/ TrainingStep
  \/ EvaluationStep
  \/ StudentForward
  \/ TeacherForward
  \/ DistillationLoss
  \/ OptimizerStep
  \/ EvaluationDone

Spec == Init /\ [][Next]_vars

\* ------------------------------------------------------------------ claims
\* The softened distribution softmax(logits / T) of one row, as rationals:
\* a logit e * ln(2) has the weight 2^(e / T).
Softened(row, t) ==
  LET w == MapSeq(LAMBDA v : RPow(2, RDiv(Coef(v, 2), t)[1]), row)
      RECURSIVE RSum(_)
      RSum(q) == IF q = <<>> THEN RZero ELSE RAdd(Head(q), RSum(Tail(q)))
      z == RSum(w)
  IN  MapSeq(LAMBDA x : RDiv(x, z), w)

\* KL(P || Q) = SUM_i P[i] * ln(P[i] / Q[i]).
KL(P, Q) == VSum(Map2(LAMBDA x, y : VScale(x, LnRat(RDiv(x, y))), P, Q))

\* D: the batch mean of KL(teacher's softened row || student's softened row).
Divergence(logits_student, logits_teacher, t) ==
  VScale(Rat(1, Len(logits_student)),
         VSum(Map2(LAMBDA s, q : KL(Softened(q, t), Softened(s, t)),
                   logits_student, logits_teacher)))

LossReturned == pc = "returned"
CurrentDivergence ==
  Divergence(outputs_student[1].logits, outputs_teacher[1].logits,
             args.temperature)
TSquared == RMul(args.temperature, args.temperature)

\* alpha * L_ce + (1 - alpha) * T^2 * D for the outputs at hand; for T = 0
\* the logits / T are not finite and D, with the sum, is NaN.
BlendedLoss ==
  IF args.temperature = RZero THEN NaN
  ELSE VAdd(VScale(args.alpha, outputs_student[1].loss),
            VScale(RMul(RSub(ROne, args.alpha), TSquared),
                   CurrentDivergence))

\* C1: whenever compute_loss returns, the loss is
\* alpha * L_ce + (1 - alpha) * T^2 * D, D being the batch-mean divergence
\* KL(softmax(teacher logits / T) || softmax(student logits / T)).
C1_LossFormula == LossReturned => result.loss = BlendedLoss

\* A loss returned for a batch of two, both terms weighing in, D # 0.
C1_Witness ==
  /\ LossReturned
  /\ args.alpha = Rat(1, 2)
  /\ args.temperature = RInt(2)
  /\ Len(inputs.labels) = 2
  /\ CurrentDivergence # VZero

\* C2: no step of the run changes the teacher's parameters, and the
\* student's parameters change only in the optimizer step.
C2_TeacherNeverUpdated ==
  [][/\ teacher' = teacher
     /\ student' # student => (pc = "returned" /\ pc' = "loop")]_vars

\* The student has been updated by an optimizer step that followed a loss
\* computed from the teacher's logits.
C2_Witness ==
  /\ step >= 1
  /\ teacher_model = "teacher"
  /\ student \notin StudentInits

\* C3 as claimed: with alpha = 1 every loss step that got the teacher's
\* output returns the student's supervised loss, whatever the teacher's
\* logits and the temperature are.
C3_AlphaOneIsStudentLoss ==
  (/\ args.alpha = ROne
   /\ pc \in {"returned", "failed"}
   /\ outputs_teacher # <<>>)
    => (LossReturned /\ result.loss = outputs_student[1].loss)

\* The batch with every label replaced by label 0.
Relabelled(batch) == [labels |-> [i \in DOMAIN batch.labels |-> 0]]

\* C4: with alpha = 0 the returned loss is T^2 * D, and it is the loss
\* compute_loss gives for the same batch with every label replaced by
\* label 0: batches that differ only in their labels have the same loss.
C4_AlphaZeroIgnoresLabels ==
  (LossReturned /\ args.alpha = RZero) =>
    /\ args.temperature # RZero =>
         result.loss = VScale(TSquared, CurrentDivergence)
    /\ result.loss = compute_loss(student, teacher, Relabelled(inputs), args)

\* alpha = 0, a loss that is not zero, and labels whose replacement changes
\* the student's supervised loss.
C4_Witness ==
  /\ LossReturned
  /\ args.alpha = RZero
  /\ args.temperature = RInt(2)
  /\ result.loss # VZero
  /\ Len(inputs.labels) = 2
  /\ Forward(student, Relabelled(inputs)).loss # outputs_student[1].loss

\* The scenario of the specification: uniform logits over 5 classes for both
\* models, label 2, alpha = 0.5, T = 2.0; L_ce of uniform logits is ln(5).
UniformFive == Model(5, [c \in 1..5 |-> 0])
UniformFiveScenario ==
  compute_loss(UniformFive, UniformFive, [labels |-> <<2>>],
               [alpha |-> Rat(1, 2), temperature |-> RInt(2)])
    = VScale(Rat(1, 2), LnInt(5))

\* C5: when the student's and the teacher's logits are identical and T > 0,
\* the divergence term is 0 and the loss is alpha * L_ce; so it is in the
\* 5-class scenario (evaluated once, in the initial states).
C5_IdenticalLogits ==
  /\ (/\ LossReturned
      /\ outputs_student[1].logits = outputs_teacher[1].logits
      /\ RLess(RZero, args.temperature))
       => /\ loss_kd(args, outputs_student[1].logits,
                     outputs_teacher[1].logits) = VZero
          /\ result.loss = VScale(args.alpha, outputs_student[1].loss)
  /\ pc = "start" => UniformFiveScenario

\* Identical logits that are not uniform, both terms weighted.
C5_Witness ==
  /\ LossReturned
  /\ outputs_student[1].logits = outputs_teacher[1].logits
  /\ student.w # [c \in 1..student.num_labels |-> 0]
  /\ args.alpha = Rat(1, 2)
  /\ args.temperature = RInt(2)

\* C6 as claimed: every constructed configuration has alpha in [0,1] and
\* T > 0, and the keywords left out are 0.5 and 2.0.
C6_ArgumentsValidated ==
  pc # "start" =>
    /\ RLeq(RZero, args.alpha) /\ RLeq(args.alpha, ROne)
    /\ RLess(RZero, args.temperature)
    /\ "alpha" \notin given => args.alpha = Rat(1, 2)
    /\ "temperature" \notin given => args.temperature = RInt(2)

\* C7 as claimed: no loss step runs with a teacher and a student whose
\* label spaces differ in size.
C7_MismatchCaughtBeforeTraining ==
  (/\ pc \in {"student_forward", "teacher_forward", "distill", "returned"}
   /\ teacher_model = "teacher")
    => student.num_labels = teacher.num_labels

\* C8: once the trainer is constructed, no step changes alpha, T or the
\* teacher reference the trainer holds.
C8_HyperparametersImmutable ==
  [][pc \notin {"start", "args"} =>
       (args' = args /\ teacher_model' = teacher_model)]_vars

\* A run in which compute_loss returned twice (training and evaluation).
C8_Witness ==
  /\ pc = "done"
  /\ teacher_model = "teacher"
  /\ step >= 1

\* C10: compute_loss returns the loss alone when return_outputs is false and
\* the pair of the loss and the student's outputs on the batch when it is
\* true; the loss is in both cases the same blend of the two terms.
C10_ReturnValue ==
  LossReturned =>
    /\ result.loss = BlendedLoss
    /\ ~return_outputs => (result.kind = "loss" /\ result.outputs = <<>>)
    /\ return_outputs =>
         (result.kind = "pair"
          /\ result.outputs = <<Forward(student, inputs)>>)

\* A pair returned while the teacher's outputs differ from the student's.
C10_Witness ==
  /\ LossReturned
  /\ return_outputs
  /\ result.kind = "pair"
  /\ outputs_teacher # outputs_student

StudentPass == Pass("model", inputs)
TeacherPass == Pass("teacher_model", inputs)
LossKinds == {"loss", "pair"}

\* C11: within one call of compute_loss the student is called first and the
\* teacher second, each exactly once and both on the batch of that call;
\* the teacher is not called before the student's outputs exist, and a loss
\* is computed and returned only after both calls have completed.
C11_SequentialPasses ==
  /\ pc = "student_forward" =>
       /\ forward_passes = <<>>
       /\ outputs_student = <<>>
       /\ outputs_teacher = <<>>
  /\ pc = "teacher_forward" =>
       /\ forward_passes = <<StudentPass>>
       /\ outputs_student # <<>>
       /\ outputs_teacher = <<>>
       /\ result = NoResult
  /\ pc = "distill" =>
       /\ forward_passes = <<StudentPass, TeacherPass>>
       /\ outputs_student # <<>>
       /\ outputs_teacher # <<>>
       /\ result = NoResult
  /\ result.kind \in LossKinds =>
       /\ pc = "returned"
       /\ forward_passes = <<StudentPass, TeacherPass>>
       /\ outputs_student # <<>>
       /\ outputs_teacher # <<>>
  /\ pc = "failed" =>
       forward_passes \in {<<StudentPass>>, <<StudentPass, TeacherPass>>}

\* A loss returned for a batch of two examples with different labels, after
\* the two calls produced different outputs.
C11_Witness ==
  /\ pc = "returned"
  /\ result.kind \in LossKinds
  /\ Len(forward_passes) = 2
  /\ Len(inputs.labels) = 2
  /\ inputs.labels[1] # inputs.labels[2]
  /\ outputs_student # outputs_teacher

\* C12: whatever alpha is, a returned loss was preceded by the call of the
\* teacher; a trainer constructed without a teacher therefore never returns
\* a loss and never completes a step, and its compute_loss ends in a
\* TypeError raised after the student's forward pass of that call has
\* produced its outputs.
C12_TeacherAlwaysCalled ==
  /\ result.kind \in LossKinds => 
       \E i \in DOMAIN forward_passes : forward_passes[i] = TeacherPass
  /\ teacher_model = "None" =>
       /\ pc \notin {"distill", "returned", "done"}
       /\ result.kind \notin LossKinds
       /\ step = 0
       /\ outputs_teacher = <<>>
  /\ (teacher_model = "None" /\ pc = "failed") =>
       /\ result = Raised("TypeError")
       /\ outputs_student # <<>>
       /\ forward_passes = <<StudentPass>>
  /\ result.kind = "TypeError" => teacher_model = "None"

\* The failure with alpha = 1, where the teacher's term has weight 0.
C12_Witness ==
  /\ pc = "failed"
  /\ teacher_model = "None"
  /\ args.alpha = ROne
  /\ result = Raised("TypeError")
  /\ outputs_student # <<>>
====
